---------------------------- MODULE Spec2Model ----------------------------
(***************************************************************************)
(* A model of the read side of the path-based symbolic simulator:          *)
(* path_symex_statet::read and the functions it is built from              *)
(* (src/src/path-symex/path_symex_state_read.cpp), over the variable       *)
(* registry var_mapt (src/unnamed/part_000).                               *)
(*                                                                         *)
(* Expressions and types are finite trees, written as records with the     *)
(* same fields throughout.  Every function of the source is an operator    *)
(* that takes the machine state m (registry, path state, counters) and     *)
(* returns the state after the call together with the result: an optional  *)
(* expression (a sequence of length 0 or 1) and the exception thrown, if   *)
(* any ("" for none).                                                      *)
(***************************************************************************)
EXTENDS Integers, Sequences, FiniteSets, TLC

VARIABLES id_map, var_state, nondet_count, new_symbols, last

vars == <<id_map, var_state, nondet_count, new_symbols, last>>

(***************************************************************************)
(* Bounds of the model.                                                    *)
(***************************************************************************)
\* the statically known size of the bounded array and vector types
ArraySize == 2
\* reads and instantiations start only while fewer auxiliary symbols exist
MaxNondet == 2
\* increment_ssa_counter is called at most this often over the whole run
MaxSsaIncrements == 1

(***************************************************************************)
(* Types (typet).  sizek says what the size operand of an array or vector  *)
(* type is: "const" (an integer constant, in size), "badconst" (a constant *)
(* that does not convert to an integer), "nonconst" (not a constant).      *)
(***************************************************************************)
MkType(id, comps, sub, sizek, size) ==
  [id |-> id, comps |-> comps, sub |-> sub, sizek |-> sizek, size |-> size]

IntT == MkType("signedbv", <<>>, <<>>, "none", 0)

BoolT == MkType("bool", <<>>, <<>>, "none", 0)

PointerT == MkType("pointer", <<>>, <<>>, "none", 0)

CodeT == MkType("code", <<>>, <<>>, "none", 0)

Comp(name, type) == [name |-> name, type |-> type]

StructT(comps) == MkType("struct", comps, <<>>, "none", 0)

UnionT(comps) == MkType("union", comps, <<>>, "none", 0)

ArrayT(sub, sizek, size) == MkType("array", <<>>, <<sub>>, sizek, size)

VectorT(sub, sizek, size) == MkType("vector", <<>>, <<sub>>, sizek, size)

(***************************************************************************)
(* Expressions (exprt).  name is the identifier of a symbol, the component *)
(* name of a member, the statement of a side effect; num is the value of a *)
(* constant and the version of an SSA symbol; ssa is ID_C_SSA_symbol.      *)
(***************************************************************************)
MkExpr(id, type, ops, name, num, ssa) ==
  [id |-> id, type |-> type, ops |-> ops, name |-> name, num |-> num, ssa |-> ssa]

symbol_expr(identifier, type) == MkExpr("symbol", type, <<>>, identifier, 0, FALSE)

from_integer(i, type) == MkExpr("constant", type, <<>>, "", i, FALSE)

member_expr(op, component_name, type) ==
  MkExpr("member", type, <<op>>, component_name, 0, FALSE)

index_expr(array, index, type) == MkExpr("index", type, <<array, index>>, "", 0, FALSE)

equal_expr(lhs, rhs) == MkExpr("=", BoolT, <<lhs, rhs>>, "", 0, FALSE)

side_effect_expr(statement, type) ==
  MkExpr("side_effect", type, <<>>, statement, 0, FALSE)

dereference_expr(pointer, type) == MkExpr("dereference", type, <<pointer>>, "", 0, FALSE)

address_of_expr(object) == MkExpr("address_of", PointerT, <<object>>, "", 0, FALSE)

ctor_expr(id, type, ops) == MkExpr(id, type, ops, "", 0, FALSE)

is_constant(e) == e.id = "constant"

(***************************************************************************)
(* Results of calls.                                                       *)
(***************************************************************************)
Ok(m, e) == [m |-> m, val |-> <<e>>, err |-> ""]

NoResult(m) == [m |-> m, val |-> <<>>, err |-> ""]

Throw(m, what) == [m |-> m, val |-> <<>>, err |-> what]

\* optionalt::value(): the value, or bad_optional_access when there is none
value_of(r) ==
  IF r.err # "" THEN r
  ELSE IF r.val = <<>> THEN Throw(r.m, "bad_optional_access")
  ELSE r

RECURSIVE simplify_expr(_)
RECURSIVE expand_structs_and_arrays(_)
RECURSIVE expand_operands(_, _)
RECURSIVE chain_to_symbol(_)
RECURSIVE Call(_, _, _, _, _)
RECURSIVE SumCounters(_)

(***************************************************************************)
(* The expression simplifier, as far as this code relies on it: operands   *)
(* first, then an equality of two constants folds to a truth value and an  *)
(* index into a constructor selects the operand.                           *)
(***************************************************************************)
simplify_expr(e) ==
  LET ops == <<>> \o [k \in 1..Len(e.ops) |-> simplify_expr(e.ops[k])]
      e2  == [e EXCEPT !.ops = ops]
  IN IF e.id = "=" /\ is_constant(ops[1]) /\ is_constant(ops[2])
       THEN from_integer(IF ops[1].num = ops[2].num THEN 1 ELSE 0, BoolT)
     ELSE IF e.id = "index" /\ ops[1].id \in {"array", "vector"} /\ is_constant(ops[2])
             /\ ops[2].num + 1 \in 1..Len(ops[1].ops)
       THEN ops[1].ops[ops[2].num + 1]
     ELSE e2

\* zero_initializer: the canonical default of a type, or nothing
zero_initializer(type) ==
  IF type.id \in {"signedbv", "bool", "pointer"} THEN <<from_integer(0, type)>> ELSE <<>>

\* var_mapt::is_unbounded_array: array storage without a statically known size
is_unbounded_array(type) == type.id = "array" /\ type.sizek = "nonconst"

(***************************************************************************)
(* expand_structs_and_arrays: one sub-expression per field or element.     *)
(* The result is [val |-> <<e>>, err |-> ""] or an exception.              *)
(***************************************************************************)
PureOk(e) == [val |-> <<e>>, err |-> ""]

PureThrow(what) == [val |-> <<>>, err |-> what]

\* the operands srcs[k..], expanded in order; the first exception ends the loop
expand_operands(srcs, k) ==
  IF k > Len(srcs) THEN [val |-> <<>>, err |-> ""]
  ELSE LET r == expand_structs_and_arrays(srcs[k])
       IN IF r.err # "" THEN r
          ELSE LET rest == expand_operands(srcs, k + 1)
               IN IF rest.err # "" THEN rest
                  ELSE [val |-> <<r.val[1]>> \o rest.val, err |-> ""]

\* lines 120-123 and 160: an array whose size is not a constant
BadExpandVariableArray(src) == PureThrow("array with non-constant size")

expand_variable_sized_array(src) == PureOk(src)

\* lines 130-131: a vector whose size is not a constant
expand_variable_sized_vector(src) == PureThrow("vector with non-constant size")

expand_structs_and_arrays(src) ==
  LET src_type == src.type IN
  IF src_type.id = "struct" THEN
    LET components == src_type.comps
        new_src(i) == IF src.id = "struct" THEN src.ops[i]
                      ELSE member_expr(src, components[i].name, components[i].type)
        r == expand_operands(<<>> \o [i \in 1..Len(components) |-> new_src(i)], 1)
    IN IF r.err # "" THEN r ELSE PureOk(ctor_expr("struct", src.type, r.val))
  ELSE IF src_type.id = "array" THEN
    IF src_type.sizek = "nonconst" THEN expand_variable_sized_array(src)
    ELSE IF src_type.sizek = "badconst" THEN PureThrow("failed to convert array size")
    ELSE
      LET new_src(i) ==
            LET ix == index_expr(src, from_integer(i - 1, IntT), src_type.sub[1])
            IN IF src.id = "array" THEN simplify_expr(ix) ELSE ix
          r == expand_operands(<<>> \o [i \in 1..src_type.size |-> new_src(i)], 1)
      IN IF r.err # "" THEN r ELSE PureOk(ctor_expr("array", src_type, r.val))
  ELSE IF src_type.id = "vector" THEN
    IF src_type.sizek = "nonconst" THEN expand_variable_sized_vector(src)
    ELSE IF src_type.sizek = "badconst" THEN PureThrow("failed to convert vector size")
    ELSE
      LET new_src(i) ==
            LET ix == index_expr(src, from_integer(i - 1, IntT), src_type.sub[1])
            IN IF src.id = "vector" THEN simplify_expr(ix) ELSE ix
          r == expand_operands(<<>> \o [i \in 1..src_type.size |-> new_src(i)], 1)
      IN IF r.err # "" THEN r ELSE PureOk(ctor_expr("vector", src_type, r.val))
  ELSE PureOk(src)

(***************************************************************************)
(* read, dereference_rec, instantiate_rec, instantiate_node,               *)
(* read_symbol_member_index and array_theory call one another; in the      *)
(* model every such call goes through Call, which hands it to the          *)
(* definition of that name.                                                *)
(***************************************************************************)
\* the one place where Call is applied
Go(fn, src, aux, propagate, m) == Call(fn, src, aux, propagate, m)

call_read(src, propagate, m) == Go("read", src, 0, propagate, m)

call_dereference_rec(src, propagate, m) == Go("dereference_rec", src, 0, propagate, m)

call_dereference_operands(src2, k, propagate, m) ==
  Go("dereference_operands", src2, k, propagate, m)

call_instantiate_rec(src, propagate, m) == Go("instantiate_rec", src, 0, propagate, m)

call_instantiate_operands(node, k, propagate, m) ==
  Go("instantiate_operands", node, k, propagate, m)

call_instantiate_node(src, propagate, m) == Go("instantiate_node", src, 0, propagate, m)

call_read_symbol_member_index(src, propagate, m) ==
  Go("read_symbol_member_index", src, 0, propagate, m)

call_read_operands(final, k, propagate, m) == Go("read_operands", final, k, propagate, m)

call_build_suffix(current, suffix, propagate, m) ==
  Go("build_suffix", current, suffix, propagate, m)

call_array_theory(src, propagate, m) == Go("array_theory", src, 0, propagate, m)

(***************************************************************************)
(* The variable registry, var_mapt.  id_map maps a full identifier         *)
(* (symbol+suffix) to its var_infot; the path's var_statet of a variable   *)
(* is kept under the same key.  Numbering and the kind of a variable are   *)
(* left out: nothing on the read side looks at them.                       *)
(***************************************************************************)
\* var_infot(): a new entry starts with ssa_counter 0
new_var_info(symbol, suffix, type) ==
  [symbol |-> symbol, suffix |-> suffix, type |-> type, ssa_counter |-> 0]

\* a var_statet as get_var_state first hands it out: no value, no SSA symbol
new_var_state == [value |-> <<>>, ssa_symbol |-> <<>>]

\* var_mapt::operator()(symbol, suffix, original): fetch, or allocate on first sight
var_map(m, symbol, suffix, type) ==
  LET full_identifier == symbol \o suffix
  IN IF full_identifier \in DOMAIN m.id_map THEN m
     ELSE [m EXCEPT
             !.id_map = (full_identifier :> new_var_info(symbol, suffix, type)) @@ m.id_map,
             !.var_state = (full_identifier :> new_var_state) @@ m.var_state]

\* var_infot::ssa_symbol(): the symbol of the current version, tagged as SSA
ssa_symbol(full_identifier, var_info) ==
  MkExpr("symbol", var_info.type, <<>>, full_identifier, var_info.ssa_counter, TRUE)

\* var_infot::increment_ssa_counter
increment_ssa_counter(var_info) == [var_info EXCEPT !.ssa_counter = @ + 1]

\* a fresh auxiliary symbol named after nondet_count, added to new_symbols
mint_auxiliary(prefix, type, m) ==
  LET id == prefix \o ToString(m.nondet_count)
  IN [m |-> [m EXCEPT !.nondet_count = @ + 1, !.new_symbols = @ \cup {id}],
      sym |-> symbol_expr(id, type)]

(***************************************************************************)
(* read_symbol_member_index, lines 459-500: the value or SSA symbol of a   *)
(* registered variable on this path.                                       *)
(***************************************************************************)
\* variants of the lookup: what it would do if one of its tests or stores were different
BadReadVarStateDefaultsAlways(full_identifier, propagate, m) ==
  LET var_info == m.id_map[full_identifier]
      vs == m.var_state[full_identifier]
  IN IF propagate /\ vs.value # <<>> THEN Ok(m, vs.value[1])
     ELSE IF vs.ssa_symbol # <<>> THEN Ok(m, vs.ssa_symbol[1])
     ELSE LET sym == ssa_symbol(full_identifier, var_info)
              zero_opt == zero_initializer(sym.type)
          IN IF zero_opt # <<>>
               THEN Ok([m EXCEPT !.var_state[full_identifier] =
                                    [value |-> zero_opt, ssa_symbol |-> <<sym>>]],
                       zero_opt[1])
             ELSE Ok([m EXCEPT !.var_state[full_identifier].ssa_symbol = <<sym>>], sym)

BadReadVarStateIgnoresFlag(full_identifier, propagate, m) ==
  LET var_info == m.id_map[full_identifier]
      vs == m.var_state[full_identifier]
  IN IF vs.value # <<>> THEN Ok(m, vs.value[1])
     ELSE IF vs.ssa_symbol # <<>> THEN Ok(m, vs.ssa_symbol[1])
     ELSE LET sym == ssa_symbol(full_identifier, var_info)
              zero_opt == IF propagate THEN zero_initializer(sym.type) ELSE <<>>
          IN IF zero_opt # <<>> /\ propagate
               THEN Ok([m EXCEPT !.var_state[full_identifier] =
                                    [value |-> zero_opt, ssa_symbol |-> <<sym>>]],
                       zero_opt[1])
             ELSE Ok([m EXCEPT !.var_state[full_identifier].ssa_symbol = <<sym>>], sym)

BadReadVarStateAdvances(full_identifier, propagate, m) ==
  LET var_info == m.id_map[full_identifier]
      vs == m.var_state[full_identifier]
  IN IF propagate /\ vs.value # <<>> THEN Ok(m, vs.value[1])
     ELSE IF vs.ssa_symbol # <<>> THEN Ok(m, vs.ssa_symbol[1])
     ELSE LET sym == ssa_symbol(full_identifier, var_info)
              zero_opt == IF propagate THEN zero_initializer(sym.type) ELSE <<>>
              m2 == [m EXCEPT !.id_map[full_identifier].ssa_counter = @ + 1]
          IN IF zero_opt # <<>> /\ propagate
               THEN Ok([m2 EXCEPT !.var_state[full_identifier] =
                                     [value |-> zero_opt, ssa_symbol |-> <<sym>>]],
                       zero_opt[1])
             ELSE Ok([m2 EXCEPT !.var_state[full_identifier].ssa_symbol = <<sym>>], sym)

BadReadVarStateNoCache(full_identifier, propagate, m) ==
  LET var_info == m.id_map[full_identifier]
      vs == m.var_state[full_identifier]
  IN IF propagate /\ vs.value # <<>> THEN Ok(m, vs.value[1])
     ELSE IF vs.ssa_symbol # <<>> THEN Ok(m, vs.ssa_symbol[1])
     ELSE LET sym == ssa_symbol(full_identifier, var_info)
              zero_opt == IF propagate THEN zero_initializer(sym.type) ELSE <<>>
          IN IF zero_opt # <<>> /\ propagate
               THEN Ok([m EXCEPT !.var_state[full_identifier].ssa_symbol = <<sym>>],
                       zero_opt[1])
             ELSE Ok([m EXCEPT !.var_state[full_identifier].ssa_symbol = <<sym>>], sym)

read_var_state(full_identifier, propagate, m) ==
  LET var_info == m.id_map[full_identifier]
      vs == m.var_state[full_identifier]
  IN IF propagate /\ vs.value # <<>> THEN Ok(m, vs.value[1])
     ELSE IF vs.ssa_symbol # <<>> THEN Ok(m, vs.ssa_symbol[1])
     ELSE LET sym == ssa_symbol(full_identifier, var_info)
              zero_opt == IF propagate THEN zero_initializer(sym.type) ELSE <<>>
          IN IF zero_opt # <<>> /\ propagate
               THEN Ok([m EXCEPT !.var_state[full_identifier] =
                                    [value |-> zero_opt, ssa_symbol |-> <<sym>>]],
                       zero_opt[1])
             ELSE Ok([m EXCEPT !.var_state[full_identifier].ssa_symbol = <<sym>>], sym)

\* array_index_as_string
array_index_as_string(src) ==
  LET tmp == simplify_expr(src)
  IN IF is_constant(tmp) THEN "[" \o ToString(tmp.num) \o "]" ELSE "[*]"

(***************************************************************************)
(* The pointer-resolution oracle and the address evaluator.                *)
(***************************************************************************)
symex_dereference(address, type) ==
  IF address.id = "address_of" THEN address.ops[1]
  ELSE IF is_constant(address) /\ address.num # 0
    THEN MkExpr("integer_dereference", type, <<>>, "", 0, FALSE)
  ELSE MkExpr("dereference_failure", type, <<>>, "", 0, FALSE)

evaluate_address_of(src) == address_of_expr(simplify_expr(src.ops[1]))

(***************************************************************************)
(* read: dereferencing, rewriting to SSA symbols, simplifier.              *)
(***************************************************************************)
read(src, propagate, m) ==
  LET tmp3 == call_dereference_rec(src, TRUE, m)
  IN IF tmp3.err # "" THEN tmp3
     ELSE LET tmp4 == call_instantiate_rec(tmp3.val[1], propagate, tmp3.m)
          IN IF tmp4.err # "" THEN tmp4
             ELSE Ok(tmp4.m, simplify_expr(tmp4.val[1]))

\* lines 601-605: the operands of src2 from k on, dereferenced in order
dereference_operands(src2, k, propagate, m) ==
  IF k > Len(src2.ops) THEN Ok(m, src2)
  ELSE LET tmp_op == call_dereference_rec(src2.ops[k], propagate, m)
       IN IF tmp_op.err # "" THEN tmp_op
          ELSE call_dereference_operands([src2 EXCEPT !.ops[k] = tmp_op.val[1]],
                                    k + 1, propagate, tmp_op.m)

dereference_rec(src, propagate, m) ==
  IF src.id = "dereference" THEN
    LET address == call_read(src.ops[1], propagate, m)
    IN IF address.err # "" THEN address
       ELSE Ok(address.m, symex_dereference(address.val[1], src.type))
  ELSE IF src.id = "address_of" THEN Ok(m, evaluate_address_of(src))
  ELSE IF Len(src.ops) = 0 THEN Ok(m, src)
  ELSE call_dereference_operands(src, 1, propagate, m)

(***************************************************************************)
(* array_theory: the case split of a symbolic index into a bounded array.  *)
(***************************************************************************)
\* lines 190-202: the cond_exprt with one case per element
BadCaseSplit(src) ==
  LET array == src.ops[1]
      n == array.type.size
  IN ctor_expr("cond", src.type,
       <<>> \o [k \in 1..(2 * (n - 1)) |->
          LET i == (k - 1) \div 2
              index == from_integer(i, src.ops[2].type)
          IN IF k % 2 = 1 THEN equal_expr(src.ops[2], index)
             ELSE index_expr(array, index, array.type.sub[1])])

case_split(src) ==
  LET array == src.ops[1]
      n == array.type.size
  IN ctor_expr("cond", src.type,
       <<>> \o [k \in 1..(2 * n) |->
          LET i == (k - 1) \div 2
              index == from_integer(i, src.ops[2].type)
          IN IF k % 2 = 1 THEN equal_expr(src.ops[2], index)
             ELSE index_expr(array, index, array.type.sub[1])])

array_theory(src, propagate, m) ==
  IF src.id = "index" THEN
    LET array_type == src.ops[1].type
    IN IF is_unbounded_array(array_type) THEN Ok(m, src)
       ELSE LET index_tmp1 == call_read(src.ops[2], propagate, m)
            IN IF index_tmp1.err # "" THEN index_tmp1
               ELSE LET index_tmp2 == simplify_expr(index_tmp1.val[1])
                    IN IF ~is_constant(index_tmp2)
                         THEN IF array_type.sizek # "const"
                                THEN Throw(index_tmp1.m, "failed to convert array size")
                              ELSE Ok(index_tmp1.m, case_split(src))
                       ELSE Ok(index_tmp1.m, src)
  ELSE Ok(m, src)

(***************************************************************************)
(* is_symbol_member_index: symbol(.member|[index])* down to a symbol that  *)
(* is not SSA yet, members through structs only.                           *)
(***************************************************************************)
\* lines 512-554: the loop from the access down to its root
chain_to_symbol(current) ==
  IF current.id = "symbol" THEN ~current.ssa
  ELSE IF current.id = "member"
    THEN IF current.ops[1].type.id = "struct" THEN chain_to_symbol(current.ops[1])
         ELSE FALSE
  ELSE IF current.id = "index" THEN chain_to_symbol(current.ops[1])
  ELSE FALSE

is_symbol_member_index(src) ==
  IF src.type.id \in {"code", "mathematical_function"} THEN FALSE
  ELSE chain_to_symbol(src)

(***************************************************************************)
(* instantiate_node: the node-local rules; no value means no change.       *)
(***************************************************************************)
\* lines 240-252: a nondeterministic input
BadInstantiateNondet(src, propagate, m) ==
  LET a == mint_auxiliary("symex::nondet", src.type, m)
  IN call_read_symbol_member_index(a.sym, propagate, a.m)

instantiate_nondet(src, propagate, m) ==
  LET a == mint_auxiliary("symex::nondet", src.type, m)
  IN call_read_symbol_member_index(a.sym, FALSE, a.m)

\* lines 262-276 and 307-319: the stand-in of a dereference that did not resolve
instantiate_deref_stand_in(src, m) ==
  LET a == mint_auxiliary("symex::deref", src.type, m)
  IN Ok(a.m, a.sym)

\* lines 256-261: a dereference left over; nothing is done with the node
BadInstantiateDereference(src, m) == instantiate_deref_stand_in(src, m)

instantiate_dereference(src, m) == NoResult(m)

instantiate_node(src, propagate, m) ==
  IF is_symbol_member_index(src) THEN
    LET tmp_symbol_member_index == call_read_symbol_member_index(src, propagate, m)
    IN IF tmp_symbol_member_index.err # "" THEN tmp_symbol_member_index
       ELSE IF tmp_symbol_member_index.val = <<>>
         THEN Throw(tmp_symbol_member_index.m, "assertion tmp_symbol_member_index.has_value()")
       ELSE tmp_symbol_member_index
  ELSE IF src.id = "address_of" THEN Ok(m, src)
  ELSE IF src.id = "side_effect" THEN
    IF src.name = "nondet" THEN instantiate_nondet(src, propagate, m)
    ELSE Throw(m, "instantiate_rec: unexpected side effect")
  ELSE IF src.id = "dereference" THEN instantiate_dereference(src, m)
  ELSE IF src.id = "integer_dereference" THEN instantiate_deref_stand_in(src, m)
  ELSE IF src.id = "member" THEN
    IF src.ops[1].type.id = "struct" THEN NoResult(m)
    ELSE IF src.ops[1].type.id = "union" THEN Throw(m, "unexpected union member")
    ELSE Throw(m, "member expects struct or union type")
  ELSE IF src.id \in {"byte_extract_little_endian", "byte_extract_big_endian"}
    THEN NoResult(m)
  ELSE IF src.id = "symbol" THEN
    IF src.type.id \in {"code", "mathematical_function"} \/ src.ssa THEN NoResult(m)
    ELSE Throw(m, "assertion SSA symbol, code or function")
  ELSE IF src.id = "dereference_failure" THEN instantiate_deref_stand_in(src, m)
  ELSE NoResult(m)

(***************************************************************************)
(* instantiate_rec: the driver.  The stack hands out the operands of a     *)
(* node last to first, and everything below an operand before the operand  *)
(* before it.                                                              *)
(***************************************************************************)
instantiate_operands(node, k, propagate, m) ==
  IF k = 0 THEN Ok(m, node)
  ELSE LET r == call_instantiate_rec(node.ops[k], propagate, m)
       IN IF r.err # "" THEN r
          ELSE call_instantiate_operands([node EXCEPT !.ops[k] = r.val[1]], k - 1, propagate, r.m)

instantiate_rec(src, propagate, m) ==
  LET node_result == call_instantiate_node(src, propagate, m)
  IN IF node_result.err # "" THEN node_result
     ELSE IF node_result.val # <<>> THEN node_result
     ELSE IF Len(src.ops) > 0
       THEN call_instantiate_operands(src, Len(src.ops), propagate, node_result.m)
     ELSE Ok(node_result.m, src)

(***************************************************************************)
(* read_symbol_member_index.                                               *)
(***************************************************************************)
\* lines 381-385: every operand of the expanded constructor, in order
read_operands(final, k, propagate, m) ==
  IF k > Len(final.ops) THEN Ok(m, final)
  ELSE LET rec_opt == value_of(call_read_symbol_member_index(final.ops[k], propagate, m))
       IN IF rec_opt.err # "" THEN rec_opt
          ELSE call_read_operands([final EXCEPT !.ops[k] = rec_opt.val[1]],
                             k + 1, propagate, rec_opt.m)

\* lines 398-440: from the access to its root symbol, collecting the suffix;
\* at the root val holds the symbol, and no value means not applicable
build_suffix(current, suffix, propagate, m) ==
  IF current.id = "symbol" THEN [m |-> m, val |-> <<current>>, err |-> "", suffix |-> suffix]
  ELSE IF current.id = "member" THEN
    IF current.ops[1].type.id = "struct"
      THEN call_build_suffix(current.ops[1], "." \o current.name \o suffix, propagate, m)
    ELSE [m |-> m, val |-> <<>>, err |-> "", suffix |-> suffix]
  ELSE IF current.id = "index" THEN
    LET index_tmp == call_read(current.ops[2], propagate, m)
    IN IF index_tmp.err # ""
         THEN [m |-> index_tmp.m, val |-> <<>>, err |-> index_tmp.err, suffix |-> suffix]
       ELSE call_build_suffix(current.ops[1],
                         array_index_as_string(index_tmp.val[1]) \o suffix,
                         propagate, index_tmp.m)
  ELSE [m |-> m, val |-> <<>>, err |-> "", suffix |-> suffix]

read_symbol_member_index(src, propagate, m) ==
  IF src.type.id \in {"code", "mathematical_function"} THEN NoResult(m)
  ELSE IF src.id = "index" /\ is_unbounded_array(src.ops[1].type) THEN
    LET rec_opt == value_of(call_read_symbol_member_index(src.ops[1], propagate, m))
    IN IF rec_opt.err # "" THEN rec_opt
       ELSE LET index == call_instantiate_rec(src.ops[2], propagate, rec_opt.m)
            IN IF index.err # "" THEN index
               ELSE Ok(index.m, index_expr(rec_opt.val[1], index.val[1], src.type))
  ELSE
    LET expanded == expand_structs_and_arrays(src)
    IN IF expanded.err # "" THEN Throw(m, expanded.err)
       ELSE IF expanded.val[1].id \in {"struct", "array", "vector"}
         THEN call_read_operands(expanded.val[1], 1, propagate, m)
       ELSE
         LET final == call_array_theory(expanded.val[1], propagate, m)
         IN IF final.err # "" THEN final
            ELSE IF final.val[1].id \in {"if", "cond"}
              THEN call_instantiate_rec(final.val[1], propagate, final.m)
            ELSE
              LET root == call_build_suffix(src, "", propagate, final.m)
              IN IF root.err # "" THEN Throw(root.m, root.err)
                 ELSE IF root.val = <<>> THEN NoResult(root.m)
                 ELSE IF root.val[1].ssa THEN NoResult(root.m)
                 ELSE read_var_state(root.val[1].name \o root.suffix, propagate,
                                     var_map(root.m, root.val[1].name, root.suffix, src.type))

Call(fn, src, aux, propagate, m) ==
  CASE fn = "read" -> read(src, propagate, m)
    [] fn = "dereference_rec" -> dereference_rec(src, propagate, m)
    [] fn = "dereference_operands" -> dereference_operands(src, aux, propagate, m)
    [] fn = "instantiate_rec" -> instantiate_rec(src, propagate, m)
    [] fn = "instantiate_operands" -> instantiate_operands(src, aux, propagate, m)
    [] fn = "instantiate_node" -> instantiate_node(src, propagate, m)
    [] fn = "read_symbol_member_index" -> read_symbol_member_index(src, propagate, m)
    [] fn = "read_operands" -> read_operands(src, aux, propagate, m)
    [] fn = "build_suffix" -> build_suffix(src, aux, propagate, m)
    [] fn = "array_theory" -> array_theory(src, propagate, m)

(***************************************************************************)
(* The program under symbolic execution: its types and symbols, and the    *)
(* expressions handed to the read side.                                    *)
(***************************************************************************)
StructS == StructT(<<Comp("a", IntT), Comp("b", IntT)>>)

BoundedArray == ArrayT(IntT, "const", ArraySize)

UnboundedArray == ArrayT(IntT, "nonconst", 0)

UnionU ==
  UnionT(<<Comp("f", IntT), Comp("s", StructS), Comp("t", BoundedArray),
           Comp("w", UnboundedArray)>>)

StructOfUnion == StructT(<<Comp("a", IntT), Comp("u", UnionU)>>)

sym_x == symbol_expr("x", IntT)

sym_s == symbol_expr("s", StructS)

sym_arr == symbol_expr("arr", BoundedArray)

sym_ua == symbol_expr("ua", UnboundedArray)

sym_u == symbol_expr("u", UnionU)

sym_su == symbol_expr("su", StructOfUnion)

sym_fn == symbol_expr("fn", CodeT)

sym_p == symbol_expr("p", PointerT)

Const(k) == from_integer(k, IntT)

\* arr[k] for the elements of the bounded array
ArrElements == {index_expr(sym_arr, Const(k), IntT) : k \in 0..(ArraySize - 1)}

arr_x == index_expr(sym_arr, sym_x, IntT)

ua_x == index_expr(sym_ua, sym_x, IntT)

s_a == member_expr(sym_s, "a", IntT)

\* symbol, member and index accesses to scalar variables of the program
ScalarAccesses == {sym_x, s_a, arr_x, ua_x} \cup ArrElements

\* the accesses read next to the registry calls of other paths
arr_0 == index_expr(sym_arr, Const(0), IntT)

AccessExprs == {sym_x, s_a, arr_x, arr_0, sym_ua}

SplitExprs == {sym_x, arr_x, ua_x, sym_arr} \cup ArrElements

\* accesses that pass through a member of a union
u_f == member_expr(sym_u, "f", IntT)

u_s == member_expr(sym_u, "s", StructS)

u_t == member_expr(sym_u, "t", BoundedArray)

u_w == member_expr(sym_u, "w", UnboundedArray)

su_u == member_expr(sym_su, "u", UnionU)

UnionAccesses ==
  {u_f, u_s, member_expr(u_s, "a", IntT), u_t, u_w,
   index_expr(u_t, Const(0), IntT), index_expr(u_t, sym_x, IntT),
   index_expr(u_w, Const(0), IntT), index_expr(u_w, sym_x, IntT),
   member_expr(su_u, "f", IntT), member_expr(su_u, "s", StructS),
   member_expr(member_expr(su_u, "s", StructS), "b", IntT)}

\* nodes the instantiation engine has rules for
nondet_int == side_effect_expr("nondet", IntT)

nondet_struct == side_effect_expr("nondet", StructS)

deref_failure == MkExpr("dereference_failure", IntT, <<>>, "", 0, FALSE)

integer_deref == MkExpr("integer_dereference", IntT, <<>>, "", 0, FALSE)

\* a failure marker that still carries the expression that failed
deref_failure_of_x == MkExpr("dereference_failure", IntT, <<sym_x>>, "", 0, FALSE)

EngineNodes ==
  {nondet_int, nondet_struct, deref_failure, integer_deref, deref_failure_of_x,
   dereference_expr(sym_p, IntT), dereference_expr(Const(7), IntT),
   dereference_expr(address_of_expr(sym_x), IntT),
   address_of_expr(sym_x), side_effect_expr("function_call", IntT),
   member_expr(Const(1), "a", IntT), sym_fn, Const(1),
   MkExpr("byte_extract_little_endian", IntT, <<sym_u, Const(0)>>, "", 0, FALSE)}

\* the nodes above alone and under an operator, next to a variable
EngineExprs ==
  EngineNodes \cup
    {sym_x, equal_expr(nondet_int, sym_x), equal_expr(dereference_expr(sym_p, IntT), sym_x),
     equal_expr(nondet_int, nondet_int), equal_expr(deref_failure, nondet_int)}

\* expressions of compound and scalar types for the structural decomposer
Sizes == {<<"const", n>> : n \in 0..ArraySize} \cup {<<"nonconst", 0>>, <<"badconst", 0>>}

Aggregates ==
  {ArrayT(e, z[1], z[2]) : e \in {IntT, StructS}, z \in Sizes}
    \cup {VectorT(e, z[1], z[2]) : e \in {IntT, StructS}, z \in Sizes}

ExpandTypes ==
  {IntT, StructS, UnionU} \cup Aggregates
    \cup {StructT(<<Comp("a", IntT), Comp("v", t)>>) : t \in Aggregates}
    \cup {ArrayT(t, "const", 1) : t \in Aggregates}

ExpandExprs ==
  {symbol_expr("x", t) : t \in ExpandTypes}
    \cup {member_expr(symbol_expr("r", StructT(<<Comp("m", t)>>)), "m", t) : t \in ExpandTypes}
    \cup {ctor_expr("struct", StructS, <<Const(1), sym_x>>),
          ctor_expr("array", ArrayT(IntT, "const", 2), <<sym_x, Const(1)>>),
          ctor_expr("vector", VectorT(StructS, "const", 1), <<sym_s>>)}

(***************************************************************************)
(* The state machine.  last records the call that led to the state, and    *)
(* what the call before it returned when that was the same call.           *)
(***************************************************************************)
EmptyMap == [f \in {} |-> new_var_state]

NoExpr == <<>>

Init ==
  /\ id_map = EmptyMap
  /\ var_state = EmptyMap
  /\ nondet_count = 0
  /\ new_symbols = {}
  /\ last = [op |-> "init", arg |-> NoExpr, propagate |-> FALSE,
             val |-> NoExpr, err |-> "", again |-> FALSE, prev_val |-> NoExpr]

M == [id_map |-> id_map, var_state |-> var_state,
      nondet_count |-> nondet_count, new_symbols |-> new_symbols]

\* the call repeats the one before it: same function, same arguments
Again(op, e, propagate) ==
  last.op = op /\ last.arg = <<e>> /\ last.propagate = propagate

Returns(op, e, propagate, r) ==
  /\ id_map' = r.m.id_map
  /\ var_state' = r.m.var_state
  /\ nondet_count' = r.m.nondet_count
  /\ new_symbols' = r.m.new_symbols
  /\ last' = [op |-> op, arg |-> <<e>>, propagate |-> propagate,
              val |-> r.val, err |-> r.err,
              again |-> Again(op, e, propagate),
              prev_val |-> IF Again(op, e, propagate) THEN last.val ELSE NoExpr]

Read(inputs) ==
  \E e \in inputs, propagate \in BOOLEAN :
    /\ nondet_count < MaxNondet
    /\ LET r == call_read(e, propagate, M) IN Returns("read", e, propagate, r)

ReadSymbolMemberIndex(inputs) ==
  \E e \in inputs, propagate \in BOOLEAN :
    /\ nondet_count < MaxNondet
    /\ LET r == call_read_symbol_member_index(e, propagate, M)
       IN Returns("read_symbol_member_index", e, propagate, r)

InstantiateRec(inputs) ==
  \E e \in inputs, propagate \in BOOLEAN :
    /\ nondet_count < MaxNondet
    /\ LET r == call_instantiate_rec(e, propagate, M)
       IN Returns("instantiate_rec", e, propagate, r)

ArrayTheory(inputs) ==
  \E e \in inputs, propagate \in BOOLEAN :
    /\ nondet_count < MaxNondet
    /\ LET r == call_array_theory(e, propagate, M)
       IN Returns("array_theory", e, propagate, r)

ExpandStructsAndArrays(inputs) ==
  \E e \in inputs :
    LET x == expand_structs_and_arrays(e)
    IN Returns("expand_structs_and_arrays", e, FALSE, [m |-> M, val |-> x.val, err |-> x.err])

\* the registry is shared: any path may allocate a variable
VarMapCall(symbols) ==
  \E e \in symbols :
    LET r == NoResult(var_map(M, e.name, "", e.type))
    IN Returns("var_map", e, FALSE, r)

SumCounters(S) ==
  IF S = {} THEN 0
  ELSE LET f == CHOOSE g \in S : TRUE
       IN id_map[f].ssa_counter + SumCounters(S \ {f})

SsaIncrements == SumCounters(DOMAIN id_map)

\* ... and advance its version
IncrementSsaCounter(identifiers) ==
  \E f \in DOMAIN id_map \cap identifiers :
    /\ SsaIncrements < MaxSsaIncrements
    /\ id_map' = [id_map EXCEPT ![f] = increment_ssa_counter(@)]
    /\ last' = [op |-> "increment_ssa_counter", arg |-> NoExpr, propagate |-> FALSE,
                val |-> NoExpr, err |-> "", again |-> FALSE, prev_val |-> NoExpr]
    /\ UNCHANGED <<var_state, nondet_count, new_symbols>>

(***************************************************************************)
(* Reads of the program's variables on one path, next to the registry      *)
(* calls of the other paths.                                               *)
(***************************************************************************)
ReadAccess == Read(AccessExprs \ {arr_0, sym_ua})

ResolveAccess == ReadSymbolMemberIndex(AccessExprs)

RegisterVariable == VarMapCall({sym_x})

\* the variables that other paths assign to
AdvanceVersion == IncrementSsaCounter({"x", "s.a"})

Next ==
  \/ ReadAccess
  \/ ResolveAccess
  \/ RegisterVariable
  \/ AdvanceVersion

Spec == Init /\ [][Next]_vars

(***************************************************************************)
(* Indexed reads and the case split.                                       *)
(***************************************************************************)
SplitIndex == ArrayTheory(SplitExprs)

ResolveIndex == ReadSymbolMemberIndex(SplitExprs)

ReadIndex == Read(SplitExprs)

NextSplit == SplitIndex \/ ResolveIndex \/ ReadIndex

SpecSplit == Init /\ [][NextSplit]_vars

(***************************************************************************)
(* The instantiation engine on the nodes it has rules for.                 *)
(***************************************************************************)
InstantiateEngine == InstantiateRec(EngineExprs)

\* read hands address-of nodes to the address evaluator; the engine sees them as they are
ReadEngine == Read(EngineExprs \ {address_of_expr(sym_x)})

NextEngine == InstantiateEngine \/ ReadEngine

SpecEngine == Init /\ [][NextEngine]_vars

(***************************************************************************)
(* Accesses through unions.                                                *)
(***************************************************************************)
ResolveUnion == ReadSymbolMemberIndex(UnionAccesses \cup {sym_x})

InstantiateUnion == InstantiateRec(UnionAccesses \cup {sym_x})

NextUnion == ResolveUnion \/ InstantiateUnion

SpecUnion == Init /\ [][NextUnion]_vars

(***************************************************************************)
(* The structural decomposer on its own.                                   *)
(***************************************************************************)
Expand == ExpandStructsAndArrays(ExpandExprs)

NextExpand == Expand

SpecExpand == Init /\ [][NextExpand]_vars

(***************************************************************************)
(* Properties.  The vocabulary first: what is read off a result and off    *)
(* the state before a call.                                                *)
(***************************************************************************)
ReadOps == {"read", "read_symbol_member_index"}

IsSsaSymbol(e) == e.id = "symbol" /\ e.ssa

RECURSIVE SymbolLeaves(_)

\* the symbols of an expression tree
SymbolLeaves(e) ==
  IF e.id = "symbol" THEN {e}
  ELSE UNION {SymbolLeaves(e.ops[k]) : k \in 1..Len(e.ops)}

\* accesses that name one scalar variable or one unbounded array as a whole
LookupAccesses == {sym_x, s_a, arr_0, sym_ua}

ElementId(i) == "arr[" \o ToString(i) \o "]"

FullIdentifierOf(a) ==
  CASE a = sym_x -> "x"
    [] a = s_a -> "s.a"
    [] a = arr_0 -> ElementId(0)
    [] a = sym_ua -> "ua"

\* the path's state of a variable before a step, and the registry's counter for it
PreOf(f) == IF f \in DOMAIN var_state THEN var_state[f] ELSE new_var_state

CounterOf(f) == IF f \in DOMAIN id_map THEN id_map[f].ssa_counter ELSE 0

VersionedSymbol(a, version) ==
  MkExpr("symbol", a.type, <<>>, FullIdentifierOf(a), version, TRUE)

\* C1: two consecutive calls of read (or read_symbol_member_index) with
\* propagation off on the same scalar access return the same result without an
\* error, whatever was read before; for an access that names one variable the
\* result is an SSA symbol.
C1_Idempotent ==
  (last.op \in ReadOps /\ last.again /\ ~last.propagate /\ last.arg[1] \in ScalarAccesses)
    => /\ last.err = ""
       /\ Len(last.val) = 1
       /\ last.val = last.prev_val
       /\ (last.arg[1] \in {sym_x, s_a, arr_0} => IsSsaSymbol(last.val[1]))

\* s.a read twice with propagation off after a propagating read cached its value
C1_Witness ==
  /\ last.op = "read" /\ last.again /\ ~last.propagate /\ last.arg = <<s_a>>
  /\ var_state["s.a"].value # <<>>
  /\ last.val = last.prev_val
  /\ IsSsaSymbol(last.val[1])

\* a read stores an SSA symbol for f that the path did not have before
Minted(f) ==
  f \in DOMAIN var_state' /\ var_state'[f].ssa_symbol # <<>> /\ PreOf(f).ssa_symbol = <<>>

\* C2 as stated: whenever read_symbol_member_index mints a fresh SSA symbol for
\* a variable, the variable's version counter is strictly larger after the call
\* than before.
C2_Original ==
  [][last'.op \in ReadOps =>
       \A f \in DOMAIN var_state' : Minted(f) => id_map'[f].ssa_counter > CounterOf(f)]_vars

\* C2, amended: no read changes a version counter, whether it mints an SSA
\* symbol or not; only increment_ssa_counter advances one, by one; no step at
\* all decreases a counter.
C2_Amended ==
  [][\A f \in DOMAIN id_map' :
       /\ id_map'[f].ssa_counter >= CounterOf(f)
       /\ (last'.op \in ReadOps => id_map'[f].ssa_counter = CounterOf(f))
       /\ (id_map'[f].ssa_counter # CounterOf(f) =>
             /\ last'.op = "increment_ssa_counter"
             /\ id_map'[f].ssa_counter = CounterOf(f) + 1)]_vars

\* x is first read on this path, an SSA symbol is minted for it, and its
\* counter is what another path advanced it to before
C2_Witness ==
  /\ last.op = "read_symbol_member_index" /\ last.arg = <<sym_x>> /\ ~last.propagate
  /\ ~last.again
  /\ id_map["x"].ssa_counter = 1
  /\ var_state["x"].ssa_symbol = last.val
  /\ var_state["x"].value = <<>>
  /\ IsSsaSymbol(last.val[1])

\* C4: with propagation off, read_symbol_member_index and read return the
\* path's SSA symbol of the variable, never its cached value; for arr[x] every
\* case value is the SSA symbol of its element.
C4_PropagationOff ==
  (last.op \in ReadOps /\ ~last.propagate /\ last.arg # NoExpr)
    => LET a == last.arg[1] IN
       /\ (a \in LookupAccesses =>
             LET f == FullIdentifierOf(a) IN
             /\ last.err = ""
             /\ f \in DOMAIN var_state
             /\ last.val = var_state[f].ssa_symbol
             /\ Len(last.val) = 1
             /\ IsSsaSymbol(last.val[1])
             /\ last.val[1].name = f
             /\ last.val # var_state[f].value)
       /\ (a = arr_x =>
             /\ last.err = ""
             /\ Len(last.val) = 1
             /\ last.val[1].id = "cond"
             /\ \A i \in 0..(ArraySize - 1) :
                  <<last.val[1].ops[2 * i + 2]>> = var_state[ElementId(i)].ssa_symbol)

\* x has a cached value and is read with propagation off
C4_Witness ==
  /\ last.op = "read_symbol_member_index" /\ ~last.propagate /\ last.arg = <<sym_x>>
  /\ var_state["x"].value = zero_initializer(IntT)
  /\ last.val = var_state["x"].ssa_symbol
  /\ var_state["x"].ssa_symbol[1].num = 0

\* what a read of the lookup access a does, by the path's state of its variable
\* before the call; version is the version of a symbol minted with a default
FirstReference(a, version) ==
  LET f == FullIdentifierOf(a)
      pre == PreOf(f)
      zero == zero_initializer(a.type)
  IN /\ (last'.propagate /\ pre.value = <<>> /\ pre.ssa_symbol = <<>> /\ zero # <<>>)
          => /\ last'.val = zero
             /\ var_state'[f] = [value |-> zero,
                                 ssa_symbol |-> <<VersionedSymbol(a, version)>>]
     /\ (last'.propagate /\ pre.value = <<>> /\ pre.ssa_symbol = <<>> /\ zero = <<>>)
          => /\ last'.val = <<VersionedSymbol(a, CounterOf(f))>>
             /\ var_state'[f] = [value |-> <<>>, ssa_symbol |-> last'.val]
     /\ (last'.propagate /\ pre.value # <<>>)
          => /\ last'.val = pre.value
             /\ var_state'[f] = pre
     /\ (last'.propagate /\ pre.value = <<>> /\ pre.ssa_symbol # <<>>)
          => /\ last'.val = pre.ssa_symbol
             /\ var_state'[f] = pre
     /\ (~last'.propagate /\ pre.ssa_symbol # <<>>)
          => /\ last'.val = pre.ssa_symbol
             /\ var_state'[f] = pre

\* C10 as stated: a propagating read of a variable with neither value nor SSA
\* symbol on the path, of a type with a default, returns the default and stores
\* it with a minted SSA symbol of version 0; later propagating reads return the
\* cached default, reads with propagation off the SSA symbol; a propagating read
\* after a first read with propagation off returns the existing SSA symbol.
C10_Original ==
  [][\A a \in LookupAccesses :
       (last'.op \in ReadOps /\ last'.arg = <<a>>)
         => (last'.err = "" /\ FirstReference(a, 0))]_vars

\* C10, amended: the same, the minted symbol having the version that the
\* registry's counter for the variable has at the time of the read.
C10_Amended ==
  [][\A a \in LookupAccesses :
       (last'.op \in ReadOps /\ last'.arg = <<a>>)
         => (last'.err = "" /\ FirstReference(a, CounterOf(FullIdentifierOf(a))))]_vars

\* x is first referenced by a propagating read after its version became 1
C10_Witness ==
  /\ last.op = "read" /\ last.propagate /\ last.arg = <<sym_x>>
  /\ last.val = zero_initializer(IntT)
  /\ var_state["x"] = [value |-> last.val, ssa_symbol |-> <<VersionedSymbol(sym_x, 1)>>]

\* the index x of arr[x] resolved to a constant in the call just made
IndexIsConstant ==
  last.propagate /\ "x" \in DOMAIN var_state /\ var_state["x"].value # <<>>

\* the guard g says that the index expression index_value equals v
GuardHolds(g, index_value, v) ==
  g.id = "=" /\ g.ops[1] = index_value /\ g.ops[2] = Const(v)

\* e is a case split over the n elements on index_value: n cases, the guard of
\* case i is index_value = i, and exactly one guard holds for each index in range
IsCaseSplit(e, index_value, n) ==
  /\ e.id = "cond"
  /\ Len(e.ops) = 2 * n
  /\ \A i \in 0..(n - 1) : e.ops[2 * i + 1] = equal_expr(index_value, Const(i))
  /\ \A v \in 0..(n - 1) :
       Cardinality({i \in 0..(n - 1) : GuardHolds(e.ops[2 * i + 1], index_value, v)}) = 1

\* what the variable of element i reads as under the flag of the call just made
ElementRead(i) ==
  LET vs == var_state[ElementId(i)]
  IN IF last.propagate /\ vs.value # <<>> THEN vs.value ELSE vs.ssa_symbol

\* what C5 says apart from the case values: the split of array_theory, no split
\* for a constant index or an unbounded array, and the guards after resolution
CaseSplitFrame ==
  /\ (last.op = "array_theory" /\ last.arg = <<arr_x>>)
       => /\ last.err = ""
          /\ Len(last.val) = 1
          /\ IF IndexIsConstant THEN last.val = <<arr_x>>
             ELSE /\ IsCaseSplit(last.val[1], sym_x, ArraySize)
                  /\ \A i \in 0..(ArraySize - 1) :
                       last.val[1].ops[2 * i + 2] = index_expr(sym_arr, Const(i), IntT)
  /\ (last.op = "array_theory" /\ last.arg # NoExpr /\ last.arg[1] \in {ua_x} \cup ArrElements)
       => (last.err = "" /\ last.val = last.arg)
  /\ (last.op = "read_symbol_member_index" /\ last.arg = <<ua_x>>)
       => (last.err = "" /\ Len(last.val) = 1 /\ last.val[1].id = "index")
  /\ (last.op = "read_symbol_member_index" /\ last.arg = <<arr_x>>)
       => /\ last.err = ""
          /\ Len(last.val) = 1
          /\ IF IndexIsConstant THEN last.val = ElementRead(var_state["x"].value[1].num)
             ELSE IsCaseSplit(last.val[1], var_state["x"].ssa_symbol[1], ArraySize)

\* C5 as stated: for arr[x], arr of statically known size n and x not a
\* constant, the result is a case split of n cases with guards x = i of which
\* exactly one holds for each index in range; after re-instantiation the value
\* of case i is the SSA symbol of the variable with suffix [i], the n variables
\* pairwise distinct; a constant index or an unbounded array gives no split.
C5_Original ==
  /\ CaseSplitFrame
  /\ (last.op = "read_symbol_member_index" /\ last.arg = <<arr_x>> /\ ~IndexIsConstant)
       => /\ \A i \in 0..(ArraySize - 1) :
               /\ IsSsaSymbol(last.val[1].ops[2 * i + 2])
               /\ last.val[1].ops[2 * i + 2].name = ElementId(i)
          /\ \A i, j \in 0..(ArraySize - 1) :
               i # j => last.val[1].ops[2 * i + 2] # last.val[1].ops[2 * j + 2]

\* C5, amended: the same, except that the value of case i is what the variable
\* with suffix [i] reads as under the propagation flag of the call: its SSA
\* symbol with propagation off (n pairwise distinct variables), its cached or
\* default value with propagation on when it has one.
C5_Amended ==
  /\ CaseSplitFrame
  /\ (last.op = "read_symbol_member_index" /\ last.arg = <<arr_x>> /\ ~IndexIsConstant)
       => /\ \A i \in 0..(ArraySize - 1) :
               /\ <<last.val[1].ops[2 * i + 2]>> = ElementRead(i)
               /\ id_map[ElementId(i)].suffix = "[" \o ToString(i) \o "]"
               /\ ~last.propagate =>
                    /\ IsSsaSymbol(last.val[1].ops[2 * i + 2])
                    /\ last.val[1].ops[2 * i + 2].name = ElementId(i)
          /\ ~last.propagate =>
               \A i, j \in 0..(ArraySize - 1) :
                 i # j => last.val[1].ops[2 * i + 2] # last.val[1].ops[2 * j + 2]

\* arr[x] resolved with propagation on while x is a symbol: the value of case 0
\* is the default value of arr[0]
C5_Witness ==
  /\ last.op = "read_symbol_member_index" /\ last.arg = <<arr_x>> /\ last.propagate
  /\ last.val # <<>>
  /\ IsCaseSplit(last.val[1], var_state["x"].ssa_symbol[1], ArraySize)
  /\ last.val[1].ops[2] = Const(0)

\* C3 as stated: every symbol in the result of read is tagged as an SSA symbol
\* (nondet, leftover dereference, dereference failure and address-of included);
\* symbols of function type are left as they are.
C3_Original ==
  (last.op = "read" /\ last.err = "" /\ last.val # <<>>)
    => \A leaf \in SymbolLeaves(last.val[1]) :
         leaf.ssa \/ leaf.type.id \in {"code", "mathematical_function"}

\* C6: every auxiliary symbol minted is new (the counter shared by nondet and
\* dereference stand-ins advances with each one); a nondet expression resolves
\* to the SSA symbol named after the counter, with no value on the path, also
\* with propagation on; resolving it twice gives two different symbols.
C6_NondetFresh ==
  /\ Cardinality(new_symbols) = nondet_count
  /\ (last.op \in {"read", "instantiate_rec"} /\ last.arg = <<nondet_int>>)
       => /\ last.err = ""
          /\ Len(last.val) = 1
          /\ IsSsaSymbol(last.val[1])
          /\ nondet_count >= 1
          /\ last.val[1].name = "symex::nondet" \o ToString(nondet_count - 1)
          /\ last.val[1].name \in new_symbols
          /\ var_state[last.val[1].name].value = <<>>
          /\ (last.again => last.val # last.prev_val)
  /\ (last.op \in {"read", "instantiate_rec"} /\ last.arg = <<nondet_struct>>)
       => /\ last.err = ""
          /\ Len(last.val) = 1
          /\ last.val[1].id = "struct"
          /\ \A leaf \in SymbolLeaves(last.val[1]) :
               /\ leaf.ssa
               /\ leaf.name \in {"symex::nondet" \o ToString(nondet_count - 1) \o s :
                                   s \in {".a", ".b"}}
               /\ var_state[leaf.name].value = <<>>

\* nondet read twice in a row with propagation on
C6_Witness ==
  /\ last.op = "read" /\ last.again /\ last.propagate /\ last.arg = <<nondet_int>>
  /\ last.prev_val = <<MkExpr("symbol", IntT, <<>>, "symex::nondet0", 0, TRUE)>>
  /\ last.val = <<MkExpr("symbol", IntT, <<>>, "symex::nondet1", 0, TRUE)>>

\* the call just made replaced its argument by a fresh auxiliary symbol of the
\* argument's type and advanced the counter by one, touching no variable
ReplacedByStandIn ==
  /\ last'.err = ""
  /\ last'.val = <<symbol_expr("symex::deref" \o ToString(nondet_count), last'.arg[1].type)>>
  /\ nondet_count' = nondet_count + 1
  /\ new_symbols' = new_symbols \cup {last'.val[1].name}
  /\ last'.val[1].name \notin new_symbols
  /\ id_map' = id_map
  /\ var_state' = var_state

\* C9 as stated: the instantiation engine replaces every leftover dereference
\* node and every dereference-failure marker by a fresh auxiliary symbol of the
\* node's type, the counter advancing by one; the node is not descended into.
C9_Original ==
  [][(last'.op = "instantiate_rec" /\ last'.arg # NoExpr
        /\ last'.arg[1].id \in {"dereference", "integer_dereference", "dereference_failure"})
       => ReplacedByStandIn]_vars

\* C9, amended: that holds of integer-dereference nodes and dereference-failure
\* markers.  A dereference node stays in place, no symbol is minted for it, and
\* its operand is instantiated like that of any other node.
C9_Amended ==
  [][/\ (last'.op = "instantiate_rec" /\ last'.arg # NoExpr
           /\ last'.arg[1].id \in {"integer_dereference", "dereference_failure"})
          => ReplacedByStandIn
     /\ (last'.op = "instantiate_rec" /\ last'.arg # NoExpr
           /\ last'.arg[1].id = "dereference")
          => /\ last'.err = ""
             /\ Len(last'.val) = 1
             /\ last'.val[1].id = "dereference"
             /\ last'.val[1].type = last'.arg[1].type
             /\ nondet_count' = nondet_count
             /\ new_symbols' = new_symbols
             /\ (last'.arg[1].ops[1] = sym_p =>
                   /\ "p" \in DOMAIN var_state'
                   /\ <<last'.val[1].ops[1]>> =
                        IF last'.propagate /\ var_state'["p"].value # <<>>
                          THEN var_state'["p"].value
                        ELSE var_state'["p"].ssa_symbol)]_vars

\* a dereference-failure marker over x replaced by the second auxiliary symbol
\* minted, x not looked at
C9_Witness ==
  /\ last.op = "instantiate_rec" /\ last.arg = <<deref_failure_of_x>>
  /\ last.val = <<symbol_expr("symex::deref1", IntT)>>
  /\ nondet_count = 2
  /\ "x" \notin DOMAIN id_map

\* C7 as stated: for every access that passes through a member of a union,
\* read_symbol_member_index returns no result, throws nothing and creates no
\* variable for it, whatever the depth and the type of the access.
C7_Original ==
  (last.op = "read_symbol_member_index" /\ last.arg # NoExpr /\ last.arg[1] \in UnionAccesses)
    => /\ last.err = ""
       /\ last.val = <<>>
       /\ \A f \in DOMAIN id_map : id_map[f].symbol \notin {"u", "su"}

RECURSIVE UnconvertibleSize(_)

\* a statically declared size in the type that does not convert to an integer
UnconvertibleSize(t) ==
  \/ t.sizek = "badconst"
  \/ \E k \in 1..Len(t.comps) : UnconvertibleSize(t.comps[k].type)
  \/ \E k \in 1..Len(t.sub) : UnconvertibleSize(t.sub[k])

RECURSIVE FatalType(_)

\* the types whose decomposition meets a size it cannot use: an unconvertible
\* size, or a vector size that is no constant
FatalType(t) ==
  IF t.id = "struct" THEN \E k \in 1..Len(t.comps) : FatalType(t.comps[k].type)
  ELSE IF t.id = "array" THEN
    \/ t.sizek = "badconst"
    \/ t.sizek = "const" /\ t.size > 0 /\ FatalType(t.sub[1])
  ELSE IF t.id = "vector" THEN
    \/ t.sizek \in {"badconst", "nonconst"}
    \/ t.sizek = "const" /\ t.size > 0 /\ FatalType(t.sub[1])
  ELSE FALSE

VariableSized(e, id) == e.type.id = id /\ e.type.sizek = "nonconst"

\* C8 as stated: expand_structs_and_arrays returns an array and a vector whose
\* size is no constant unchanged and without error; only a declared size that
\* does not convert to an integer is fatal.
C8_Original ==
  (last.op = "expand_structs_and_arrays")
    => /\ (VariableSized(last.arg[1], "array") \/ VariableSized(last.arg[1], "vector"))
            => (last.err = "" /\ last.val = last.arg)
       /\ last.err # "" => UnconvertibleSize(last.arg[1].type)

\* C8, amended: an array whose size is no constant is returned unchanged and
\* without error; a vector whose size is no constant is fatal; the decomposer
\* throws exactly when it meets such a vector or an unconvertible size.
C8_Amended ==
  (last.op = "expand_structs_and_arrays")
    => /\ VariableSized(last.arg[1], "array") => (last.err = "" /\ last.val = last.arg)
       /\ VariableSized(last.arg[1], "vector")
            => (last.err = "vector with non-constant size" /\ last.val = <<>>)
       /\ last.err # "" <=> FatalType(last.arg[1].type)
       /\ last.err \in {"", "vector with non-constant size", "failed to convert array size",
                        "failed to convert vector size"}

\* an array of structs whose size is no constant went through the decomposer
C8_Witness ==
  /\ last.op = "expand_structs_and_arrays"
  /\ last.arg = <<symbol_expr("x", ArrayT(StructS, "nonconst", 0))>>
  /\ last.val = last.arg
  /\ last.err = ""

=============================================================================
